---- MODULE Spec2Model ----
(***************************************************************************)
(* Model of the SST25 flash driver (src/src/device.rs): the device handle  *)
(* Flash, its public operations (trait Memory) and its private helpers.    *)
(* One step of the model is one call of a collaborator (a pin or the SPI   *)
(* bus) together with the pure code that follows it up to the next         *)
(* collaborator call or to the return of the operation.  The collaborators *)
(* are the environment: every pin call and every bus exchange may succeed  *)
(* or fail, and the bytes the chip answers are chosen from small sets.     *)
(***************************************************************************)
EXTENDS Integers, Sequences, FiniteSets, TLC

VARIABLES
    configured,            \* Flash.configured
    blocking,              \* Flash.blocking
    pin_enable,            \* last successful call on the EN pin: "none", "low", "high"
    pin_hold,              \* last successful call on the HOLD pin
    pin_write_protection,  \* last successful call on the WP pin
    pin_enable_failed,     \* has a call on the EN pin ever failed?
    pin_failed,            \* has a call on any pin ever failed?
    chip,                  \* the chip's busy bit, when the chip is modelled
    call,                  \* the operation in progress or last returned, with its arguments
    pc,                    \* call site inside the operation, "idle" between operations
    step,                  \* position inside transfer()/configure()/read()
    frame,                 \* the buffer handed to the next bus exchange
    bus_result,            \* result of bus.transfer() kept over the set_high in transfer()
    chunk,                 \* aai_program: number of buffer bytes put into frames so far
    polls,                 \* busy answers the chip gave to the busy-wait of this call
    trace,                 \* collaborator calls of the current operation, in order
    result,                \* what the last operation returned
    codec                  \* the status codec on its own: its inputs and what it made of them

driver_vars == <<configured, blocking, pin_enable, pin_hold,
                 pin_write_protection, pin_enable_failed, pin_failed, call,
                 pc, step, frame, bus_result, chunk, polls, trace, result>>

vars == <<driver_vars, chip, codec>>

-----------------------------------------------------------------------------
(* Bounds of the model *)

\* most busy answers the chip gives to the busy-wait polls of one operation
MaxPolls == 2
\* longest buffer handed to aai_program
MaxBufLen == 4
\* largest L of read::<L>
MaxReadLen == 2
\* most codec functions applied in a row to one input
MaxCodecOps == 2

-----------------------------------------------------------------------------
(* Program constants *)

CMD_READ_STATUS   == 5
CMD_WRITE_ENABLE  == 6
CMD_WRITE_DISABLE == 4
CMD_WRITE_STATUS  == 1
CMD_ERASE_FULL    == 96
CMD_BYTE_PROGRAM  == 2
CMD_AAI_PROGRAM   == 173
CMD_READ          == 3
MAX_ADDRESS       == 16777216

-----------------------------------------------------------------------------
(* Pure helpers *)

\* bit i of the byte data: data & (1 << i) != 0
Bit(data, i) == (data \div (2 ^ i)) % 2 = 1

\* `x as u8`
AsU8(x) == x % 256

\* mutant: bits_read_only is read from bit 6
from_register_read_only_bit6(data) ==
    [ busy                 |-> Bit(data, 0),
      write_enabled        |-> Bit(data, 1),
      block0_protected     |-> Bit(data, 2),
      block1_protected     |-> Bit(data, 3),
      block2_protected     |-> Bit(data, 4),
      block3_protected     |-> Bit(data, 5),
      aai_programming_mode |-> Bit(data, 6),
      bits_read_only       |-> Bit(data, 6) ]

\* Status::from_register
from_register(data) ==
    [ busy                 |-> Bit(data, 0),
      write_enabled        |-> Bit(data, 1),
      block0_protected     |-> Bit(data, 2),
      block1_protected     |-> Bit(data, 3),
      block2_protected     |-> Bit(data, 4),
      block3_protected     |-> Bit(data, 5),
      aai_programming_mode |-> Bit(data, 6),
      bits_read_only       |-> Bit(data, 7) ]

\* mutant: aai_programming_mode is written back too
to_registers_with_aai(status) ==
      (IF status.block0_protected     THEN 4   ELSE 0)
    + (IF status.block1_protected     THEN 8   ELSE 0)
    + (IF status.block2_protected     THEN 16  ELSE 0)
    + (IF status.block3_protected     THEN 32  ELSE 0)
    + (IF status.aai_programming_mode THEN 64  ELSE 0)
    + (IF status.bits_read_only       THEN 128 ELSE 0)

\* mutant: bits_read_only is not written back
to_registers_without_read_only(status) ==
      (IF status.block0_protected THEN 4   ELSE 0)
    + (IF status.block1_protected THEN 8   ELSE 0)
    + (IF status.block2_protected THEN 16  ELSE 0)
    + (IF status.block3_protected THEN 32  ELSE 0)

\* Status::to_registers
to_registers(status) ==
      (IF status.block0_protected THEN 4   ELSE 0)
    + (IF status.block1_protected THEN 8   ELSE 0)
    + (IF status.block2_protected THEN 16  ELSE 0)
    + (IF status.block3_protected THEN 32  ELSE 0)
    + (IF status.bits_read_only   THEN 128 ELSE 0)

\* mutant: the comparison is >= instead of >
assert_valid_address_strict(address) == ~(address >= MAX_ADDRESS)

\* mutant: the comparison is off by one
assert_valid_address_off_by_one(address) == ~(address > MAX_ADDRESS + 1)

\* Flash::assert_valid_address: TRUE when the address passes
assert_valid_address(address) == ~(address > MAX_ADDRESS)

\* Flash::address_command: frame[1..3] in the code are elements 2..4 here
address_command(address, f) ==
    [f EXCEPT ![2] = AsU8(address \div 65536),
              ![3] = AsU8(address \div 256),
              ![4] = AsU8(address)]

\* mutant: the loop condition forgets the force argument
wait_polls_blocking_only(force) == blocking

\* mutant: the loop condition forgets the blocking flag
wait_polls_force_only(force) == force

\* the loop condition of Flash::wait before the status read
wait_polls(force) == blocking \/ force

\* mutants: a wait() call with the other force argument
erase_full_forced     == TRUE
byte_program_forced   == TRUE
aai_program_unforced  == FALSE

\* the force argument of the wait() calls
erase_full_force   == FALSE
byte_program_force == FALSE
aai_program_force  == TRUE

\* mutant: the parity check is missing
aai_buffer_check_no_parity(buffer) ==
    IF Len(buffer) < 2 THEN "BufferTooSmall" ELSE "Ok"

\* the two buffer checks of aai_program: "Ok" or the error returned
aai_buffer_check(buffer) ==
    IF Len(buffer) < 2 THEN "BufferTooSmall"
    ELSE IF Len(buffer) % 2 = 1 THEN "BufferUneven"
    ELSE "Ok"

\* mutant: the two bytes of a chunk are swapped
aai_chunk_frame_swapped(buffer, c) ==
    <<CMD_AAI_PROGRAM, buffer[c + 2], buffer[c + 1]>>

\* mutant: write_status sends the write-enable opcode again
write_status_frame_enable(status) == <<CMD_WRITE_ENABLE, to_registers(status)>>

\* mutant: the address bytes of read are least-significant first
read_frame_little_endian(address) ==
    <<CMD_READ, AsU8(address), AsU8(address \div 256), AsU8(address \div 65536)>>

\* the frames built by the operations
status_frame == <<CMD_READ_STATUS, 0>>
byte_program_frame(address, data) ==
    address_command(address, <<CMD_BYTE_PROGRAM, 0, 0, 0, data>>)
aai_first_frame(address, buffer) ==
    address_command(address, <<CMD_AAI_PROGRAM, 0, 0, 0, buffer[1], buffer[2]>>)
aai_chunk_frame(buffer, c) == <<CMD_AAI_PROGRAM, buffer[c + 1], buffer[c + 2]>>
write_status_frame(status) == <<CMD_WRITE_STATUS, to_registers(status)>>
read_frame(address) == address_command(address, <<CMD_READ, 0, 0, 0>>)
zeros(n) == [i \in 1..n |-> 0]

-----------------------------------------------------------------------------
(* Inputs and answers of the environment *)

Addresses == {500000, 16777216, 16777217, 33554432}
DataBytes == {150}
BufByte(i) == AsU8(150 + 17 * i)
Buffers == { [i \in 1..n |-> BufByte(i)] : n \in 0..MaxBufLen }
Statuses == { from_register(36), from_register(255) }
StatusRegisters == {0, 1, 2}
FirstBytes == {0, 255}
ReadLens == 1..MaxReadLen
ReadAnswers(n) == { [i \in 1..n |-> AsU8(b + i)] : b \in {10, 102} }

NoCall == [name |-> "none", address |-> 0, data |-> 0, buffer |-> <<>>,
           status |-> from_register(0), len |-> 0]
NoBus == [ok |-> TRUE, resp |-> <<>>]

\* the chip is not modelled: what it answers is chosen freely
NoChip == [modelled |-> FALSE, busy |-> FALSE]
\* the call sites of the status read inside Flash::wait
WaitSites == {"erase_wait", "program_wait", "aai_wait"}
\* the opcodes that start an internal write operation of the chip
BusyCommands == {CMD_BYTE_PROGRAM, CMD_AAI_PROGRAM, CMD_ERASE_FULL}
\* the chip after the frame f was exchanged with the chip selected: a modelled
\* chip is busy after a program or erase command; when the exchange failed,
\* the command may or may not have reached it
chip_after(f, ok) ==
    IF chip.modelled /\ f[1] \in BusyCommands
    THEN IF ok THEN { [chip EXCEPT !.busy = TRUE] }
         ELSE { chip, [chip EXCEPT !.busy = TRUE] }
    ELSE { chip }

\* an entry of the trace: a pin call or a bus exchange, with the EN level it saw
PinEvent(kind, ok) ==
    [kind |-> kind, ok |-> ok, data |-> <<>>, resp |-> <<>>, en |-> pin_enable]
BusEvent(ok, data, resp) ==
    [kind |-> "bus", ok |-> ok, data |-> data, resp |-> resp, en |-> pin_enable]

\* what the chip may answer to the frame f at call site site: a modelled chip
\* reports its busy bit, a chip that is not modelled any status, busy to at
\* most MaxPolls polls of one busy-wait
Answers(site, f) ==
    IF f = status_frame
    THEN { <<b, r>> : b \in (IF site = "read_status" THEN FirstBytes ELSE {0}),
                      r \in { s \in StatusRegisters :
              IF chip.modelled THEN Bit(s, 0) = chip.busy
              ELSE (site \in WaitSites /\ Bit(s, 0)) => polls < MaxPolls } }
    ELSE IF site = "read_data" THEN ReadAnswers(Len(f))
    ELSE { zeros(Len(f)) }

-----------------------------------------------------------------------------
(* Control flow *)

\* a codec that was given nothing
NoCodec == [input |-> 0, register |-> 0, status |-> from_register(0),
            frame |-> <<>>, ops |-> <<>>]

\* Flash::new
DriverInit ==
    /\ configured = FALSE
    /\ blocking = TRUE
    /\ pin_enable = "none"
    /\ pin_hold = "none"
    /\ pin_write_protection = "none"
    /\ pin_enable_failed = FALSE
    /\ pin_failed = FALSE
    /\ call = NoCall
    /\ pc = "idle"
    /\ step = "none"
    /\ frame = <<>>
    /\ bus_result = NoBus
    /\ chunk = 0
    /\ polls = 0
    /\ trace = <<>>
    /\ result = [err |-> "none", value |-> <<>>]

Init ==
    /\ DriverInit
    /\ chip = NoChip
    /\ codec = NoCodec

\* the operation returns res (and the value val)
Return(res, val) ==
    /\ pc' = "idle"
    /\ step' = "none"
    /\ frame' = <<>>
    /\ chunk' = 0
    /\ result' = [err |-> res, value |-> val]
    /\ codec' = codec

\* the operation goes on to the collaborator call at site/position with frame f
Goto(site, position, f, c) ==
    /\ pc' = site
    /\ step' = position
    /\ frame' = f
    /\ chunk' = c
    /\ result' = result
    /\ codec' = codec

\* mutant: transfer() does not set the chip-enable line low
transfer_unselected(site, f, c) ==
    Goto(site, IF configured THEN "bus" ELSE "hold", f, c)

\* mutant: configure() does not look at the configured flag
transfer_always_configures(site, f, c) == Goto(site, "hold", f, c)

\* entry of Flash::transfer(f) at call site site: configure() first
transfer(site, f, c) ==
    Goto(site, IF configured THEN "set_low" ELSE "hold", f, c)

\* Flash::wait(force) at call site site; done is what follows the wait
wait(force, site, done) ==
    IF wait_polls(force) THEN transfer(site, status_frame, chunk) ELSE done

\* aai_program after the wait of a chunk: the next chunk or write_disable
aai_next ==
    IF chunk < Len(call.buffer)
    THEN transfer("aai_chunk", aai_chunk_frame(call.buffer, chunk), chunk + 2)
    ELSE transfer("aai_disable", <<CMD_WRITE_DISABLE>>, chunk)

\* mutant: the first byte of the answer is taken
status_byte_first(resp) == resp[1]

\* Memory::read_status: the byte of the answer that is decoded, `[1]`
status_byte(resp) == resp[2]

\* mutant: the busy bit is not looked at
not_busy_unchecked(resp) == TRUE

\* Flash::assert_not_busy on the answer resp of its status read
not_busy(resp) == ~from_register(status_byte(resp)).busy

\* the code that follows a successful transfer() at call site pc
Continue(resp) ==
    CASE pc = "read_status"   -> Return("Ok", from_register(status_byte(resp)))
      [] pc = "write_enable"  -> Return("Ok", <<>>)
      [] pc = "write_disable" -> Return("Ok", <<>>)
      [] pc = "status_enable" -> Goto("status_dummy", "bus", <<0>>, chunk)
      [] pc = "status_write"  -> Return("Ok", <<>>)
      [] pc = "erase_enable"  -> transfer("erase_busy", status_frame, chunk)
      [] pc = "erase_busy"    ->
            IF not_busy(resp)
            THEN transfer("erase_command", <<CMD_ERASE_FULL>>, chunk)
            ELSE Return("Busy", <<>>)
      [] pc = "erase_command" ->
            wait(erase_full_force, "erase_wait", Return("Ok", <<>>))
      [] pc = "erase_wait"    ->
            IF not_busy(resp) THEN Return("Ok", <<>>)
            ELSE wait(erase_full_force, "erase_wait", Return("Ok", <<>>))
      [] pc = "program_enable" -> transfer("program_busy", status_frame, chunk)
      [] pc = "program_busy"  ->
            IF not_busy(resp)
            THEN transfer("program_command",
                          byte_program_frame(call.address, call.data), chunk)
            ELSE Return("Busy", <<>>)
      [] pc = "program_command" ->
            wait(byte_program_force, "program_wait", Return("Ok", <<>>))
      [] pc = "program_wait"  ->
            IF not_busy(resp) THEN Return("Ok", <<>>)
            ELSE wait(byte_program_force, "program_wait", Return("Ok", <<>>))
      [] pc = "aai_enable"    -> transfer("aai_busy", status_frame, chunk)
      [] pc = "aai_busy"      ->
            IF not_busy(resp)
            THEN transfer("aai_first",
                          aai_first_frame(call.address, call.buffer), 2)
            ELSE Return("Busy", <<>>)
      [] pc \in {"aai_first", "aai_chunk"} ->
            wait(aai_program_force, "aai_wait", aai_next)
      [] pc = "aai_wait"      ->
            IF not_busy(resp) THEN aai_next
            ELSE wait(aai_program_force, "aai_wait", aai_next)
      [] pc = "aai_disable"   -> Return("Ok", <<>>)

\* mutant: aai_program sends write-disable after a failed chunk or poll
transfer_failed_disables(err) ==
    IF pc \in {"aai_chunk", "aai_wait"}
    THEN transfer("aai_disable", <<CMD_WRITE_DISABLE>>, chunk)
    ELSE Return(err, <<>>)

\* a failed transfer(): every caller hands its error on with `?`
transfer_failed(err) == Return(err, <<>>)

\* mutant: the bus exchange is tried again after it failed
transfer_bus_failed_retries == Goto(pc, "bus", frame, chunk)

\* mutant: `?` on the bus result before set_high()
transfer_bus_failed_returns == Return("TransferError", <<>>)

\* Flash::transfer after a failed bus.transfer(): the error is kept in
\* `result` and pin_enable.set_high() is called before it is returned
transfer_bus_failed == Goto(pc, "set_high", frame, chunk)

\* mutant: the bus error is returned first
transfer_outcome_bus_first(high_ok, bus_ok) ==
    IF ~bus_ok THEN "TransferError"
    ELSE IF ~high_ok THEN "EnablePinError"
    ELSE "Ok"

\* Flash::transfer: what it returns, from the results of set_high() and of
\* the bus exchange before it
transfer_outcome(high_ok, bus_ok) ==
    IF ~high_ok THEN "EnablePinError"
    ELSE IF ~bus_ok THEN "TransferError"
    ELSE "Ok"

\* Flash::read: what it returns, from the results of set_high() and of the
\* bus exchange before it
read_outcome(high_ok, bus_ok) ==
    IF ~high_ok THEN "EnablePinError"
    ELSE IF ~bus_ok THEN "TransferError"
    ELSE "Ok"

\* a public operation is called: the per-call bookkeeping
Begin(c) ==
    /\ pc = "idle"
    /\ call' = c
    /\ trace' = <<>>
    /\ polls' = 0
    /\ bus_result' = NoBus
    /\ UNCHANGED <<configured, blocking, pin_enable, pin_hold,
                   pin_write_protection, pin_enable_failed, pin_failed, chip>>

TransferSites ==
    {"read_status", "write_enable", "write_disable", "status_enable",
     "status_write", "erase_enable", "erase_busy", "erase_command",
     "erase_wait", "program_enable", "program_busy", "program_command",
     "program_wait", "aai_enable", "aai_busy", "aai_first", "aai_chunk",
     "aai_wait", "aai_disable"}

-----------------------------------------------------------------------------
(* The public operations: the call and the code before the first
   collaborator call *)

set_blocking ==
    /\ pc = "idle"
    /\ blocking' = TRUE
    /\ call' = [NoCall EXCEPT !.name = "set_blocking"]
    /\ trace' = <<>>
    /\ Return("Ok", <<>>)
    /\ UNCHANGED <<configured, pin_enable, pin_hold, pin_write_protection,
                   pin_enable_failed, pin_failed, chip, bus_result>>
    /\ polls' = 0

\* mutant: set_non_blocking sets the flag like set_blocking
set_non_blocking_sets_blocking ==
    /\ pc = "idle"
    /\ blocking' = TRUE
    /\ call' = [NoCall EXCEPT !.name = "set_non_blocking"]
    /\ trace' = <<>>
    /\ Return("Ok", <<>>)
    /\ UNCHANGED <<configured, pin_enable, pin_hold, pin_write_protection,
                   pin_enable_failed, pin_failed, chip, bus_result>>
    /\ polls' = 0

set_non_blocking ==
    /\ pc = "idle"
    /\ blocking' = FALSE
    /\ call' = [NoCall EXCEPT !.name = "set_non_blocking"]
    /\ trace' = <<>>
    /\ Return("Ok", <<>>)
    /\ UNCHANGED <<configured, pin_enable, pin_hold, pin_write_protection,
                   pin_enable_failed, pin_failed, chip, bus_result>>
    /\ polls' = 0

read_status ==
    /\ Begin([NoCall EXCEPT !.name = "read_status"])
    /\ transfer("read_status", status_frame, 0)

write_enable ==
    /\ Begin([NoCall EXCEPT !.name = "write_enable"])
    /\ transfer("write_enable", <<CMD_WRITE_ENABLE>>, 0)

write_disable ==
    /\ Begin([NoCall EXCEPT !.name = "write_disable"])
    /\ transfer("write_disable", <<CMD_WRITE_DISABLE>>, 0)

write_status ==
    \E status \in Statuses :
        /\ Begin([NoCall EXCEPT !.name = "write_status", !.status = status])
        /\ transfer("status_enable", <<CMD_WRITE_ENABLE>>, 0)

\* mutant: erase_full does not send write-enable
erase_full_without_enable ==
    /\ Begin([NoCall EXCEPT !.name = "erase_full"])
    /\ transfer("erase_busy", status_frame, 0)

erase_full ==
    /\ Begin([NoCall EXCEPT !.name = "erase_full"])
    /\ transfer("erase_enable", <<CMD_WRITE_ENABLE>>, 0)

byte_program ==
    \E address \in Addresses, data \in DataBytes :
        /\ Begin([NoCall EXCEPT !.name = "byte_program", !.address = address,
                                !.data = data])
        /\ IF assert_valid_address(address)
           THEN transfer("program_enable", <<CMD_WRITE_ENABLE>>, 0)
           ELSE Return("InvalidAddress", <<>>)

\* mutant: aai_program checks the buffer before the address
aai_program_buffer_first ==
    \E address \in Addresses, buffer \in Buffers :
        /\ Begin([NoCall EXCEPT !.name = "aai_program", !.address = address,
                                !.buffer = buffer])
        /\ IF aai_buffer_check(buffer) # "Ok"
           THEN Return(aai_buffer_check(buffer), <<>>)
           ELSE IF ~assert_valid_address(address)
           THEN Return("InvalidAddress", <<>>)
           ELSE transfer("aai_enable", <<CMD_WRITE_ENABLE>>, 0)

aai_program ==
    \E address \in Addresses, buffer \in Buffers :
        /\ Begin([NoCall EXCEPT !.name = "aai_program", !.address = address,
                                !.buffer = buffer])
        /\ IF ~assert_valid_address(address)
           THEN Return("InvalidAddress", <<>>)
           ELSE IF aai_buffer_check(buffer) # "Ok"
           THEN Return(aai_buffer_check(buffer), <<>>)
           ELSE transfer("aai_enable", <<CMD_WRITE_ENABLE>>, 0)

read ==
    \E address \in Addresses, len \in ReadLens :
        /\ Begin([NoCall EXCEPT !.name = "read", !.address = address,
                                !.len = len])
        /\ IF assert_valid_address(address)
           THEN Goto("read", IF configured THEN "set_low" ELSE "hold",
                     read_frame(address), 0)
           ELSE Return("InvalidAddress", <<>>)

-----------------------------------------------------------------------------
(* The collaborator calls *)

\* Flash::configure: pin_hold.set_high()
configure_hold ==
    /\ pc # "idle" /\ step = "hold"
    /\ \E ok \in BOOLEAN :
        /\ trace' = Append(trace, PinEvent("hold_high", ok))
        /\ IF ok
           THEN /\ pin_hold' = "high"
                /\ Goto(pc, "write_protection", frame, chunk)
           ELSE /\ pin_hold' = pin_hold
                /\ Return("HoldPinError", <<>>)
        /\ pin_failed' = (pin_failed \/ ~ok)
    /\ UNCHANGED <<configured, blocking, pin_enable, pin_write_protection,
                   pin_enable_failed, call, bus_result, polls, chip>>

\* mutant: configured is set before the write-protect line is called
configure_write_protection_sets_first ==
    /\ pc # "idle" /\ step = "write_protection"
    /\ \E ok \in BOOLEAN :
        /\ trace' = Append(trace, PinEvent("wp_low", ok))
        /\ configured' = TRUE
        /\ IF ok
           THEN /\ pin_write_protection' = "low"
                /\ Goto(pc, "set_low", frame, chunk)
           ELSE /\ pin_write_protection' = pin_write_protection
                /\ Return("WriteProtectionPinError", <<>>)
        /\ pin_failed' = (pin_failed \/ ~ok)
    /\ UNCHANGED <<blocking, pin_enable, pin_hold, pin_enable_failed, call,
                   bus_result, polls, chip>>

\* Flash::configure: pin_write_protection.set_low(), then configured = true
configure_write_protection ==
    /\ pc # "idle" /\ step = "write_protection"
    /\ \E ok \in BOOLEAN :
        /\ trace' = Append(trace, PinEvent("wp_low", ok))
        /\ IF ok
           THEN /\ pin_write_protection' = "low"
                /\ configured' = TRUE
                /\ Goto(pc, "set_low", frame, chunk)
           ELSE /\ pin_write_protection' = pin_write_protection
                /\ configured' = configured
                /\ Return("WriteProtectionPinError", <<>>)
        /\ pin_failed' = (pin_failed \/ ~ok)
    /\ UNCHANGED <<blocking, pin_enable, pin_hold, pin_enable_failed, call,
                   bus_result, polls, chip>>

\* Flash::transfer and Flash::read: pin_enable.set_low()
enable_set_low ==
    /\ pc # "idle" /\ step = "set_low"
    /\ \E ok \in BOOLEAN :
        /\ trace' = Append(trace, PinEvent("en_low", ok))
        /\ IF ok
           THEN /\ pin_enable' = "low"
                /\ pin_enable_failed' = pin_enable_failed
                /\ Goto(pc, "bus", frame, chunk)
           ELSE /\ pin_enable' = pin_enable
                /\ pin_enable_failed' = TRUE
                /\ Return("EnablePinError", <<>>)
        /\ pin_failed' = (pin_failed \/ ~ok)
    /\ UNCHANGED <<configured, blocking, pin_hold, pin_write_protection,
                   call, bus_result, polls, chip>>

\* Flash::transfer: bus.transfer(data), the result kept for after set_high
transfer_bus ==
    /\ pc \in TransferSites /\ step = "bus"
    /\ \/ \E resp \in Answers(pc, frame) :
            /\ trace' = Append(trace, BusEvent(TRUE, frame, resp))
            /\ bus_result' = [ok |-> TRUE, resp |-> resp]
            /\ polls' = IF pc \in WaitSites /\ ~not_busy(resp)
                        THEN polls + 1 ELSE polls
            /\ chip' \in chip_after(frame, TRUE)
            /\ Goto(pc, "set_high", frame, chunk)
       \/ /\ trace' = Append(trace, BusEvent(FALSE, frame, <<>>))
          /\ bus_result' = [ok |-> FALSE, resp |-> <<>>]
          /\ polls' = polls
          /\ chip' \in chip_after(frame, FALSE)
          /\ transfer_bus_failed
    /\ UNCHANGED <<configured, blocking, pin_enable, pin_hold,
                   pin_write_protection, pin_enable_failed, pin_failed, call>>

\* Flash::transfer: pin_enable.set_high(), then the result of the exchange.
\* The trace keeps the first MaxPolls busy polls of a busy-wait: a later poll
\* that is answered busy and followed by another poll leaves no entry.
transfer_set_high ==
    /\ pc \in TransferSites /\ step = "set_high"
    /\ \E ok \in BOOLEAN :
        /\ trace' = IF ok /\ polls > MaxPolls
                     THEN SubSeq(trace, 1, Len(trace) - 2)
                     ELSE Append(trace, PinEvent("en_high", ok))
        /\ polls' = IF ok /\ polls > MaxPolls THEN MaxPolls ELSE polls
        /\ pin_enable' = IF ok THEN "high" ELSE pin_enable
        /\ pin_enable_failed' = (pin_enable_failed \/ ~ok)
        /\ pin_failed' = (pin_failed \/ ~ok)
        /\ IF transfer_outcome(ok, bus_result.ok) = "Ok"
           THEN Continue(bus_result.resp)
           ELSE transfer_failed(transfer_outcome(ok, bus_result.ok))
    /\ bus_result' = NoBus
    /\ UNCHANGED <<configured, blocking, pin_hold, pin_write_protection,
                   call, chip>>

\* write_status: self.bus.transfer(&mut [0x0]), called on the bus directly
write_status_dummy ==
    /\ pc = "status_dummy" /\ step = "bus"
    /\ \/ \E resp \in Answers(pc, frame) :
            /\ trace' = Append(trace, BusEvent(TRUE, frame, resp))
            /\ transfer("status_write", write_status_frame(call.status), chunk)
       \/ /\ trace' = Append(trace, BusEvent(FALSE, frame, <<>>))
          /\ Return("TransferError", <<>>)
    /\ UNCHANGED <<configured, blocking, pin_enable, pin_hold,
                   pin_write_protection, pin_enable_failed, pin_failed, call,
                   bus_result, polls, chip>>

\* read: bus.transfer(&mut frame), the command exchange
read_command ==
    /\ pc = "read" /\ step = "bus"
    /\ \/ \E resp \in Answers(pc, frame) :
            /\ trace' = Append(trace, BusEvent(TRUE, frame, resp))
            /\ bus_result' = NoBus
            /\ Goto("read_data", "bus", zeros(call.len), chunk)
       \/ /\ trace' = Append(trace, BusEvent(FALSE, frame, <<>>))
          /\ bus_result' = [ok |-> FALSE, resp |-> <<>>]
          /\ Goto("read", "set_high", frame, chunk)
    /\ UNCHANGED <<configured, blocking, pin_enable, pin_hold,
                   pin_write_protection, pin_enable_failed, pin_failed, call,
                   polls, chip>>

\* read: bus.transfer(&mut [0x0; L]), the data exchange
read_data ==
    /\ pc = "read_data" /\ step = "bus"
    /\ \/ \E resp \in Answers(pc, frame) :
            /\ trace' = Append(trace, BusEvent(TRUE, frame, resp))
            /\ bus_result' = [ok |-> TRUE, resp |-> resp]
       \/ /\ trace' = Append(trace, BusEvent(FALSE, frame, <<>>))
          /\ bus_result' = [ok |-> FALSE, resp |-> <<>>]
    /\ Goto("read_data", "set_high", frame, chunk)
    /\ UNCHANGED <<configured, blocking, pin_enable, pin_hold,
                   pin_write_protection, pin_enable_failed, pin_failed, call,
                   polls, chip>>

\* read: the three pin_enable.set_high() calls, after a failed command
\* exchange, after a failed data exchange and after the data
read_set_high ==
    /\ pc \in {"read", "read_data"} /\ step = "set_high"
    /\ \E ok \in BOOLEAN :
        /\ trace' = Append(trace, PinEvent("en_high", ok))
        /\ pin_enable' = IF ok THEN "high" ELSE pin_enable
        /\ pin_enable_failed' = (pin_enable_failed \/ ~ok)
        /\ pin_failed' = (pin_failed \/ ~ok)
        /\ IF read_outcome(ok, bus_result.ok) = "Ok"
           THEN Return("Ok", bus_result.resp)
           ELSE Return(read_outcome(ok, bus_result.ok), <<>>)
    /\ bus_result' = NoBus
    /\ UNCHANGED <<configured, blocking, pin_hold, pin_write_protection,
                   call, polls, chip>>

Next ==
    \/ set_blocking
    \/ set_non_blocking
    \/ read_status
    \/ write_enable
    \/ write_disable
    \/ write_status
    \/ erase_full
    \/ byte_program
    \/ aai_program
    \/ read
    \/ configure_hold
    \/ configure_write_protection
    \/ enable_set_low
    \/ transfer_bus
    \/ transfer_set_high
    \/ write_status_dummy
    \/ read_command
    \/ read_data
    \/ read_set_high

Spec == Init /\ [][Next]_vars

-----------------------------------------------------------------------------
(* The driver on a chip whose busy bit is modelled: set by the program and
   erase commands, cleared by the chip when its internal write operation ends *)

ChipInit ==
    /\ DriverInit
    /\ chip = [modelled |-> TRUE, busy |-> FALSE]
    /\ codec = NoCodec

\* the chip ends its internal write operation
chip_done ==
    /\ chip.modelled /\ chip.busy
    /\ chip' = [chip EXCEPT !.busy = FALSE]
    /\ UNCHANGED <<driver_vars, codec>>

ChipNext ==
    \/ Next
    \/ chip_done

ChipSpec == ChipInit /\ [][ChipNext]_vars

\* this step is a collaborator call that failed
Failure ==
    /\ Len(trace') = Len(trace) + 1
    /\ ~trace'[Len(trace')].ok

\* a step of the operation in progress
Running ==
    \/ configure_hold
    \/ configure_write_protection
    \/ enable_set_low
    \/ transfer_bus
    \/ transfer_set_high
    \/ write_status_dummy
    \/ read_command
    \/ read_data
    \/ read_set_high

\* the same with collaborators that do not fail
FairNext ==
    \/ Next /\ ~Failure
    \/ chip_done

\* the operation in progress runs on, and a busy chip ends its internal
\* write operation at some time
FairSpec ==
    /\ ChipInit
    /\ [][FairNext]_vars
    /\ WF_vars(Running /\ ~Failure)
    /\ WF_vars(chip_done)

\* without the assumption on the chip
UnfairSpec ==
    /\ ChipInit
    /\ [][FairNext]_vars
    /\ WF_vars(Running /\ ~Failure)

-----------------------------------------------------------------------------
(* The status codec on its own: Status::from_register and
   Status::to_registers applied to every register byte and to every Status *)

\* every value of struct Status
StatusValues ==
    [ busy : BOOLEAN, write_enabled : BOOLEAN, block0_protected : BOOLEAN,
      block1_protected : BOOLEAN, block2_protected : BOOLEAN,
      block3_protected : BOOLEAN, aai_programming_mode : BOOLEAN,
      bits_read_only : BOOLEAN ]

\* the input is a register byte (kept in input) or a Status
CodecInit ==
    /\ DriverInit
    /\ chip = NoChip
    /\ \/ \E v \in 0..255 : codec = [NoCodec EXCEPT !.input = v, !.register = v]
       \/ \E st \in StatusValues : codec = [NoCodec EXCEPT !.status = st]

\* Status::from_register(codec.register)
decode ==
    /\ Len(codec.ops) < MaxCodecOps
    /\ codec' = [codec EXCEPT !.status = from_register(codec.register),
                              !.ops = Append(@, "decode")]
    /\ UNCHANGED <<driver_vars, chip>>

\* codec.status.to_registers(), and the frame write_status builds from it
encode ==
    /\ Len(codec.ops) < MaxCodecOps
    /\ codec' = [codec EXCEPT !.register = to_registers(codec.status),
                              !.frame = write_status_frame(codec.status),
                              !.ops = Append(@, "encode")]
    /\ UNCHANGED <<driver_vars, chip>>

CodecNext ==
    \/ decode
    \/ encode

CodecSpec == CodecInit /\ [][CodecNext]_vars

-----------------------------------------------------------------------------
(* Observations on the trace of the current operation *)

\* the last operation called has returned
Returned == pc = "idle" /\ call.name # "none"
ReturnedFrom(name) == Returned /\ call.name = name

IsBus(e) == e.kind = "bus"
\* the bus exchanges of the current operation, in order
BusLog == SelectSeq(trace, IsBus)
\* the frames they carried
Frames == [i \in 1..Len(BusLog) |-> BusLog[i].data]
\* a successful status read, and what it reported
IsStatusRead(e) == e.kind = "bus" /\ e.data = <<5, 0>>
ReportsBusy(e) == e.ok /\ e.resp[2] % 2 = 1
ReportsIdle(e) == e.ok /\ e.resp[2] % 2 = 0
\* position in BusLog of the first frame with opcode op, 0 when there is none
FirstOf(op) ==
    IF \E i \in 1..Len(BusLog) : BusLog[i].data[1] = op
    THEN CHOOSE i \in 1..Len(BusLog) :
            /\ BusLog[i].data[1] = op
            /\ \A j \in 1..(i - 1) : BusLog[j].data[1] # op
    ELSE 0
\* the bus exchanges after position i
After(i) == SubSeq(BusLog, i + 1, Len(BusLog))
\* k busy answers and then one idle answer, all to status reads, k >= 0
PolledToIdle(log) ==
    /\ Len(log) >= 1
    /\ \A i \in 1..Len(log) : IsStatusRead(log[i])
    /\ \A i \in 1..(Len(log) - 1) : ReportsBusy(log[i])
    /\ ReportsIdle(log[Len(log)])
\* a bus exchange failed while EN was low
FailedSelected(i) == trace[i].kind = "bus" /\ ~trace[i].ok /\ trace[i].en = "low"

-----------------------------------------------------------------------------
(* C1 *)

\* C1: a bus exchange that fails while the chip-enable line is low is followed
\* by a set_high call on that line before the operation returns; and as long
\* as no chip-enable pin call has failed, an operation never returns with the
\* line low: the line is high whenever the operation has set it low.
C1_EnableReleased ==
    /\ \A i \in 1..Len(trace) : FailedSelected(i) =>
          IF i < Len(trace) THEN trace[i + 1].kind = "en_high"
          ELSE pc # "idle" /\ step = "set_high"
    /\ (Returned /\ ~pin_enable_failed) =>
          /\ pin_enable # "low"
          /\ (\E i \in 1..Len(trace) : trace[i].kind = "en_low")
                => pin_enable = "high"

C1_Witness ==
    /\ Returned /\ ~pin_enable_failed
    /\ result.err = "TransferError"
    /\ \E i \in 1..Len(trace) : FailedSelected(i)
    /\ pin_enable = "high"

\* C2: when a bus exchange fails and the set_high that follows it fails too,
\* the operation returns EnablePinError, not TransferError.
C2_EnableErrorWins ==
    Returned =>
        \A i \in 1..(Len(trace) - 1) :
            (FailedSelected(i) /\ trace[i + 1].kind = "en_high" /\ ~trace[i + 1].ok)
                => result.err = "EnablePinError"

C2_Witness ==
    /\ ReturnedFrom("erase_full")
    /\ result.err = "EnablePinError"
    /\ Len(trace) >= 2
    /\ FailedSelected(Len(trace) - 1)
    /\ trace[Len(trace)].kind = "en_high" /\ ~trace[Len(trace)].ok

-----------------------------------------------------------------------------
(* C3, C4: erase_full *)

\* C3 as claimed: a successful erase_full has, in either mode, seen a status
\* read after the erase opcode report busy = false.
C3_AlwaysPolls ==
    (ReturnedFrom("erase_full") /\ result.err = "Ok") =>
        \E i \in 1..Len(BusLog) :
            /\ i > FirstOf(96)
            /\ IsStatusRead(BusLog[i]) /\ ReportsIdle(BusLog[i])

\* C3 as amended: a successful erase_full has polled the status register to
\* busy = false after the erase opcode when the blocking flag is set; with
\* the flag cleared it returns with the erase opcode as its last bus exchange.
C3_PollsWhenBlocking ==
    (ReturnedFrom("erase_full") /\ result.err = "Ok") =>
        /\ FirstOf(96) > 0
        /\ IF blocking
           THEN /\ IsStatusRead(BusLog[Len(BusLog)])
                /\ ReportsIdle(BusLog[Len(BusLog)])
                /\ Len(BusLog) > FirstOf(96)
           ELSE Len(BusLog) = FirstOf(96)

C3_Witness ==
    /\ ReturnedFrom("erase_full") /\ result.err = "Ok"
    /\ ~blocking
    /\ BusLog[Len(BusLog)].data = <<96>>

\* C4: a successful erase_full in non-blocking mode issues exactly
\* write-enable, one status read and the erase opcode; in blocking mode it
\* issues after these k+1 status reads, the chip answering busy k times and
\* then not busy.
C4_EraseHonoursBlocking ==
    (ReturnedFrom("erase_full") /\ result.err = "Ok") =>
        /\ Len(Frames) >= 3
        /\ SubSeq(Frames, 1, 3) = << <<6>>, <<5, 0>>, <<96>> >>
        /\ IF blocking THEN PolledToIdle(After(3)) ELSE Len(Frames) = 3

C4_Witness ==
    /\ ReturnedFrom("erase_full") /\ result.err = "Ok"
    /\ blocking
    /\ Len(BusLog) = 3 + MaxPolls + 1
    /\ ReportsBusy(BusLog[4])

-----------------------------------------------------------------------------
(* C5: byte_program *)

\* C5: a successful byte_program in blocking mode issues after the program
\* command exactly k+1 status reads, the chip answering busy k times and then
\* not busy; in non-blocking mode the program command is its last bus exchange.
C5_ProgramHonoursBlocking ==
    (ReturnedFrom("byte_program") /\ result.err = "Ok") =>
        /\ Len(Frames) >= 3
        /\ Frames[1] = <<6>> /\ Frames[2] = <<5, 0>>
        /\ Len(Frames[3]) = 5 /\ Frames[3][1] = 2 /\ Frames[3][5] = call.data
        /\ IF blocking THEN PolledToIdle(After(3)) ELSE Len(Frames) = 3

C5_Witness ==
    /\ ReturnedFrom("byte_program") /\ result.err = "Ok"
    /\ blocking
    /\ Len(BusLog) = 6
    /\ ReportsBusy(BusLog[4]) /\ ReportsBusy(BusLog[5]) /\ ReportsIdle(BusLog[6])

-----------------------------------------------------------------------------
(* C6: the busy check *)

WriteOperations == {"erase_full", "byte_program", "aai_program"}

\* the status read that follows write-enable has returned a status with busy set
BusyAtCheck ==
    /\ Len(BusLog) >= 2
    /\ IsStatusRead(BusLog[2]) /\ ReportsBusy(BusLog[2])
    /\ \E i \in 1..Len(trace) :
          /\ trace[i] = BusLog[2]
          /\ Len(SelectSeq(SubSeq(trace, 1, i), IsBus)) = 2
          /\ i < Len(trace) /\ trace[i + 1].kind = "en_high" /\ trace[i + 1].ok

\* C6: when the status read after write-enable reports busy, erase_full,
\* byte_program and aai_program return Busy and their bus exchanges are
\* exactly the write-enable command and that status read.
C6_BusyStopsTheCall ==
    (call.name \in WriteOperations /\ BusyAtCheck) =>
        /\ Returned
        /\ result.err = "Busy"
        /\ Frames = << <<6>>, <<5, 0>> >>
        /\ trace[Len(trace)].kind = "en_high"

C6_Witness ==
    /\ ReturnedFrom("aai_program") /\ BusyAtCheck
    /\ result.err = "Busy"
    /\ ~blocking

-----------------------------------------------------------------------------
(* C7: address validation comes first *)

AddressOperations == {"byte_program", "aai_program", "read"}

\* C7: byte_program, aai_program and read called with an address above
\* 16777216 return InvalidAddress at once, with no bus exchange and no pin
\* call, and leave configured, blocking and the pins as they were.
C7_InvalidAddressFailsFast ==
    [][ (/\ pc = "idle"
         /\ call'.name \in AddressOperations
         /\ call'.address > 16777216)
        => /\ pc' = "idle"
           /\ result'.err = "InvalidAddress"
           /\ trace' = <<>>
           /\ UNCHANGED <<configured, blocking, pin_enable, pin_hold,
                          pin_write_protection>> ]_vars

C7_Witness ==
    /\ ReturnedFrom("read")
    /\ call.address > 16777216
    /\ result.err = "InvalidAddress"
    /\ configured /\ ~blocking
    /\ trace = <<>>

-----------------------------------------------------------------------------
(* C8, C9, C10: aai_program *)

AaiValidAddress == call.name = "aai_program" /\ call.address <= 16777216

\* C8: with a valid address, aai_program returns BufferTooSmall for a buffer
\* of length 0 or 1 and BufferUneven for an odd length of 3 or more, both
\* with no bus exchange and no pin call; a buffer of even length >= 2 gets
\* neither error and the call goes on to the write-enable command.
C8_BufferValidation ==
    AaiValidAddress =>
        LET n == Len(call.buffer) IN
        IF n < 2 THEN Returned /\ result.err = "BufferTooSmall" /\ trace = <<>>
        ELSE IF n % 2 = 1
        THEN Returned /\ result.err = "BufferUneven" /\ trace = <<>>
        ELSE /\ Returned => result.err \notin
                    {"BufferTooSmall", "BufferUneven", "InvalidAddress"}
             /\ Returned => trace # <<>>
             /\ trace = <<>> => pc = "aai_enable" /\ frame = <<6>>
             /\ Len(Frames) >= 1 => Frames[1] = <<6>>

C8_Witness ==
    /\ AaiValidAddress /\ Returned
    /\ Len(call.buffer) = 3
    /\ result.err = "BufferUneven"

IsNotStatusFrame(f) == f # <<5, 0>>
\* the frames of the current operation that are no status reads
Commands == SelectSeq(Frames, IsNotStatusFrame)

\* C9: a successful aai_program of a buffer of length 2n has sent, status
\* reads apart, write-enable, the first frame [0xAD, 3 address bytes, b0, b1],
\* the n-1 frames [0xAD, b(2i), b(2i+1)] in buffer order, and write-disable.
C9_AaiFrames ==
    (ReturnedFrom("aai_program") /\ result.err = "Ok") =>
        LET b == call.buffer
            n == Len(b) \div 2
        IN  /\ Len(b) = 2 * n /\ n >= 1
            /\ Len(Commands) = n + 2
            /\ Commands[1] = <<6>>
            /\ Len(Commands[2]) = 6
            /\ Commands[2][1] = 173
            /\ \A k \in 2..4 : Commands[2][k] \in 0..255
            /\ Commands[2][5] = b[1] /\ Commands[2][6] = b[2]
            /\ \A i \in 1..(n - 1) :
                  Commands[2 + i] = <<173, b[2 * i + 1], b[2 * i + 2]>>
            /\ Commands[n + 2] = <<4>>
            /\ Frames[Len(Frames)] = <<4>>

C9_Witness ==
    /\ ReturnedFrom("aai_program") /\ result.err = "Ok"
    /\ Len(call.buffer) = 4
    /\ Len(Commands) = 4

\* C10: in either mode, between an AAI frame and the next frame that is no
\* status read (the next AAI frame or write-disable) the driver has read the
\* status, and the last status read before that frame reported busy = false;
\* a successful call has read the status after every AAI frame.
C10_AaiForcedWait ==
    call.name = "aai_program" =>
        \A i \in 1..Len(BusLog) :
            (BusLog[i].data[1] = 173) =>
                /\ i < Len(BusLog) => IsStatusRead(BusLog[i + 1])
                /\ \A j \in (i + 1)..Len(BusLog) :
                      ~IsStatusRead(BusLog[j]) =>
                          /\ j > i + 1
                          /\ ReportsIdle(BusLog[j - 1])
                /\ (Returned /\ result.err = "Ok") => i < Len(BusLog)

C10_Witness ==
    /\ ReturnedFrom("aai_program") /\ result.err = "Ok"
    /\ ~blocking
    /\ Len(call.buffer) = 4
    /\ \E i \in 1..(Len(BusLog) - 2) :
          /\ BusLog[i].data[1] = 173
          /\ ReportsBusy(BusLog[i + 1])
          /\ ReportsIdle(BusLog[i + 2])

-----------------------------------------------------------------------------
(* C11: the one-time configuration *)

\* this step is a call of the given kind on a pin (ok: a call that succeeded)
NewCall(kind) ==
    /\ Len(trace') = Len(trace) + 1
    /\ trace'[Len(trace')].kind = kind
NewCallOk(kind) == NewCall(kind) /\ trace'[Len(trace')].ok

\* C11 as claimed: configured never reverts, and the static line levels are
\* asserted exactly once in the lifetime of the handle: the hold line is set
\* high only when it has not been set high before, the write-protect line is
\* set low only when it has not been set low before.
C11_AssertedExactlyOnce ==
    [][ /\ configured => configured'
        /\ NewCallOk("hold_high") => pin_hold = "none"
        /\ NewCallOk("wp_low") => pin_write_protection = "none" ]_vars

\* C11 as amended: configured changes only from false to true, in the step
\* in which the write-protect line is set low successfully after the hold
\* line was set high in the same operation, and never reverts; the
\* write-protect line is set low successfully once; once configured, neither
\* line is called again.  (Before that, the hold line is set high again by
\* every operation that reaches configuration.)
C11_ConfiguredOnce ==
    [][ /\ configured => configured'
        /\ configured => ~NewCall("hold_high") /\ ~NewCall("wp_low")
        /\ (~configured /\ configured') <=> NewCallOk("wp_low")
        /\ NewCallOk("wp_low") =>
              /\ pin_write_protection = "none"
              /\ pin_hold = "high"
              /\ trace[Len(trace)].kind = "hold_high" /\ trace[Len(trace)].ok
        /\ (~configured /\ pc # "idle" /\ step = "hold") => pin_write_protection = "none"
      ]_vars

C11_Witness ==
    /\ ReturnedFrom("read_status") /\ result.err = "Ok"
    /\ configured
    /\ trace[1].kind = "en_low"
    /\ pin_hold = "high" /\ pin_write_protection = "low"

-----------------------------------------------------------------------------
(* C12: blocking mode *)

\* C12: in blocking mode a successful byte_program or erase_full has issued
\* a status read after its program/erase command, and the last status read of
\* the call, which is its last bus exchange, reported busy = false.
C12_BlockingReturnsIdle ==
    (Returned /\ call.name \in {"byte_program", "erase_full"}
        /\ result.err = "Ok" /\ blocking) =>
        LET command == FirstOf(IF call.name = "erase_full" THEN 96 ELSE 2)
            last == BusLog[Len(BusLog)]
        IN  /\ command > 0
            /\ Len(BusLog) > command
            /\ IsStatusRead(last)
            /\ ReportsIdle(last)
            /\ ~ReportsBusy(last)

C12_Witness ==
    /\ ReturnedFrom("byte_program") /\ result.err = "Ok" /\ blocking
    /\ Len(BusLog) = 5
    /\ ReportsBusy(BusLog[4])
    /\ ReportsIdle(BusLog[5])

-----------------------------------------------------------------------------
(* C13: the blocking flag *)

BlockingSetters == {"set_blocking", "set_non_blocking"}

\* C13: blocking is true on a handle no operation was called on; set_blocking and set_non_blocking
\* set the flag and nothing else of the handle, with no bus exchange and no
\* pin call (configured stays as it is); no other step changes the flag.
C13_BlockingFlag ==
    [][ /\ call.name = "none" => blocking
        /\ IF pc = "idle" /\ call'.name \in BlockingSetters
           THEN /\ blocking' = (call'.name = "set_blocking")
                /\ pc' = "idle" /\ result'.err = "Ok"
                /\ trace' = <<>>
                /\ UNCHANGED <<configured, pin_enable, pin_hold,
                               pin_write_protection>>
           ELSE blocking' = blocking ]_vars

C13_Witness ==
    /\ ReturnedFrom("set_non_blocking")
    /\ ~blocking /\ ~configured
    /\ trace = <<>>
    /\ pin_hold = "none" /\ pin_enable = "none"

-----------------------------------------------------------------------------
(* C14 .. C16: the frames of write_status, read, read_status, write_enable
   and write_disable *)

\* field i of a Status, in the order of the register bits
Field(st, i) ==
    CASE i = 0 -> st.busy
      [] i = 1 -> st.write_enabled
      [] i = 2 -> st.block0_protected
      [] i = 3 -> st.block1_protected
      [] i = 4 -> st.block2_protected
      [] i = 5 -> st.block3_protected
      [] i = 6 -> st.aai_programming_mode
      [] i = 7 -> st.bits_read_only
\* bit i of the byte v is set
BitSet(v, i) == (v \div (2 ^ i)) % 2 = 1
\* the byte e carries the five writable fields of st and has bits 0, 1, 6 clear
IsEncodingOf(e, st) ==
    /\ e \in 0..255
    /\ \A i \in {2, 3, 4, 5, 7} : BitSet(e, i) <=> Field(st, i)
    /\ \A i \in {0, 1, 6} : ~BitSet(e, i)

\* C14: a successful write_status has issued exactly the three bus exchanges
\* [0x06], [0x00], [0x01, encode(status)], in this order; no write_status
\* ever issues a status read.
C14_WriteStatusFrames ==
    call.name = "write_status" =>
        /\ \A i \in 1..Len(BusLog) : ~IsStatusRead(BusLog[i])
        /\ Len(BusLog) <= 3
        /\ (Returned /\ result.err = "Ok") =>
              /\ Len(Frames) = 3
              /\ Frames[1] = <<6>>
              /\ Frames[2] = <<0>>
              /\ Len(Frames[3]) = 2
              /\ Frames[3][1] = 1
              /\ IsEncodingOf(Frames[3][2], call.status)

C14_Witness ==
    /\ ReturnedFrom("write_status") /\ result.err = "Ok"
    /\ call.status.busy /\ call.status.bits_read_only
    /\ Frames[3] = <<1, 188>>

SingleFrameOperations == {"read_status", "write_enable", "write_disable"}
IsEnableOrBus(e) == e.kind \in {"en_low", "bus", "en_high"}

\* C16: read_status, write_enable and write_disable issue at most one bus
\* exchange, with the chip-enable line low, and a successful call exactly
\* set_low, the exchange ([0x05, 0x00], [0x06], [0x04]), set_high;
\* read_status returns the decoding of the second byte of the answer,
\* whatever the first.
C16_SingleFrame ==
    call.name \in SingleFrameOperations =>
        /\ Len(BusLog) <= 1
        /\ \A i \in 1..Len(BusLog) : BusLog[i].en = "low"
        /\ (Returned /\ result.err = "Ok") =>
              LET core == SelectSeq(trace, IsEnableOrBus) IN
              /\ Len(core) = 3
              /\ core[1].kind = "en_low" /\ core[2].kind = "bus"
              /\ core[3].kind = "en_high"
              /\ Frames[1] = CASE call.name = "read_status" -> <<5, 0>>
                               [] call.name = "write_enable" -> <<6>>
                               [] call.name = "write_disable" -> <<4>>
              /\ call.name = "read_status" =>
                    \A i \in 0..7 :
                        Field(result.value, i) <=> BitSet(BusLog[1].resp[2], i)

C16_Witness ==
    /\ ReturnedFrom("read_status") /\ result.err = "Ok"
    /\ ~blocking
    /\ BusLog[1].resp = <<255, 2>>
    /\ result.value.write_enabled /\ ~result.value.busy

-----------------------------------------------------------------------------
(* C17: the address boundary *)

\* C17: byte_program, aai_program and read return InvalidAddress exactly for
\* the addresses above 16777216: 16777216 itself passes, 16777217 fails.
C17_AddressBoundary ==
    (Returned /\ call.name \in AddressOperations) =>
        (result.err = "InvalidAddress" <=> call.address >= 16777217)

C17_Witness ==
    /\ ReturnedFrom("byte_program")
    /\ call.address = 16777216
    /\ result.err = "Ok"

-----------------------------------------------------------------------------
(* C18 .. C20: the status codec, under CodecSpec *)

LastOp == IF codec.ops = <<>> THEN "none" ELSE codec.ops[Len(codec.ops)]

\* C18: for every register byte v, field i of from_register(v) is true
\* exactly when bit i of v is set, so that v is the only byte decoded to it.
C18_DecodeLossless ==
    LastOp = "decode" =>
        /\ codec.status \in StatusValues
        /\ \A i \in 0..7 : Field(codec.status, i) <=> BitSet(codec.register, i)
        /\ \A w \in 0..255 :
              from_register(w) = codec.status => w = codec.register

C18_Witness ==
    /\ codec.ops = <<"decode">>
    /\ codec.input = 28 /\ codec.register = 28
    /\ codec.status.block0_protected /\ codec.status.block1_protected
    /\ codec.status.block2_protected /\ ~codec.status.busy

\* C19: for every Status, to_registers sets bits 2, 3, 4, 5, 7 from
\* block0..3_protected and bits_read_only and leaves bits 0, 1 and 6 clear; the
\* frame write_status builds is [0x01, that byte].
C19_EncodeWritableBits ==
    LastOp = "encode" =>
        /\ IsEncodingOf(codec.register, codec.status)
        /\ codec.frame = <<1, codec.register>>
        /\ ~BitSet(codec.frame[2], 0) /\ ~BitSet(codec.frame[2], 1)
        /\ ~BitSet(codec.frame[2], 6)

C19_Witness ==
    /\ codec.ops = <<"encode">>
    /\ codec.status.busy /\ codec.status.write_enabled
    /\ codec.status.aai_programming_mode
    /\ codec.status.block3_protected /\ ~codec.status.bits_read_only
    /\ codec.register = 32

\* v with bits 0, 1 and 6 cleared
WritablePart(v) ==
    v - (IF BitSet(v, 0) THEN 1 ELSE 0) - (IF BitSet(v, 1) THEN 2 ELSE 0)
      - (IF BitSet(v, 6) THEN 64 ELSE 0)

\* C20: for every byte v, to_registers(from_register(v)) is v with bits 0, 1
\* and 6 cleared.
C20_RoundTrip ==
    codec.ops = <<"decode", "encode">> =>
        /\ codec.register = WritablePart(codec.input)
        /\ \A i \in {2, 3, 4, 5, 7} :
              BitSet(codec.register, i) <=> BitSet(codec.input, i)

C20_Witness ==
    /\ codec.ops = <<"decode", "encode">>
    /\ codec.input = 255
    /\ codec.register = 188

-----------------------------------------------------------------------------
(* C21: the address bytes *)

\* the frame f starts with a program or read opcode followed by an address
HasAddress(f) ==
    \/ f[1] = 2 /\ Len(f) = 5
    \/ f[1] = 173 /\ Len(f) = 6
    \/ f[1] = 3 /\ Len(f) = 4

\* C21 as claimed: in byte_program, aai_program and read, every frame that
\* carries an address is sent for an address of 0..16777216 and its three
\* bytes b1, b2, b3 after the opcode satisfy b1*65536 + b2*256 + b3 = address.
C21_BigEndianAddress ==
    call.name \in AddressOperations =>
        \A i \in 1..Len(Frames) :
            HasAddress(Frames[i]) =>
                /\ call.address <= 16777216
                /\ \A k \in 2..4 : Frames[i][k] \in 0..255
                /\ Frames[i][2] * 65536 + Frames[i][3] * 256 + Frames[i][4]
                      = call.address

-----------------------------------------------------------------------------
(* C22, C23: the chip-enable line *)

\* C22 as claimed: as long as no pin call has failed, every bus exchange
\* takes place while the last successful chip-enable call is set_low.
C22_AlwaysSelected ==
    ~pin_failed => \A i \in 1..Len(BusLog) : BusLog[i].en = "low"

\* C22 as amended: every bus exchange takes place directly after a successful
\* set_low of the chip-enable line (or, in read, after the command exchange
\* under the same set_low), except the dummy byte [0x00] of write_status,
\* which is exchanged after the set_high that ends the write-enable
\* transaction, with the chip not selected.
C22_SelectedButDummy ==
    \A i \in 1..Len(trace) :
        IsBus(trace[i]) =>
            /\ i > 1
            /\ IF call.name = "write_status" /\ trace[i].data = <<0>>
               THEN /\ trace[i].en = "high"
                    /\ trace[i - 1].kind = "en_high" /\ trace[i - 1].ok
                    /\ Len(SelectSeq(SubSeq(trace, 1, i), IsBus)) = 2
               ELSE /\ trace[i].en = "low"
                    /\ trace[i - 1].ok
                    /\ \/ trace[i - 1].kind = "en_low"
                       \/ /\ call.name = "read"
                          /\ IsBus(trace[i - 1])
                          /\ i > 2 /\ trace[i - 2].kind = "en_low"

C22_Witness ==
    /\ ReturnedFrom("write_status") /\ result.err = "Ok"
    /\ ~pin_failed
    /\ Len(BusLog) = 3
    /\ BusLog[1].en = "low"
    /\ BusLog[2].data = <<0>> /\ BusLog[2].en = "high"
    /\ BusLog[3].en = "low"

\* C23: as long as no pin call has failed, set_low is called on the
\* chip-enable line only when it was not called yet or set_high was called
\* last, and set_high only when set_low was called last; a set_low outside
\* read is followed by one bus exchange and then set_high, the set_low of read
\* by the command exchange, then the data exchange when the command exchange
\* succeeded, then set_high; an operation does not return between a set_low
\* and its set_high.
C23_EnableAlternates ==
    ~pin_failed =>
        LET core == SelectSeq(trace, IsEnableOrBus) IN
        /\ \A i \in 1..Len(trace) :
              /\ trace[i].kind = "en_low" => trace[i].en \in {"none", "high"}
              /\ trace[i].kind = "en_high" => trace[i].en = "low"
        /\ Returned => pin_enable # "low"
        /\ \A i \in 1..Len(core) :
              core[i].kind = "en_low" =>
                  /\ Returned => i + 2 <= Len(core)
                  /\ i + 1 <= Len(core) =>
                        /\ IsBus(core[i + 1]) /\ core[i + 1].en = "low"
                  /\ IF call.name = "read"
                     THEN /\ i = 1
                          /\ 2 <= Len(core) => core[2].data[1] = 3
                          /\ 3 <= Len(core) =>
                                IF core[2].ok
                                THEN /\ IsBus(core[3]) /\ core[3].en = "low"
                                     /\ core[3].data = zeros(call.len)
                                ELSE core[3].kind = "en_high"
                          /\ 4 <= Len(core) =>
                                /\ core[2].ok
                                /\ core[4].kind = "en_high"
                          /\ Len(core) <= 4
                          /\ Returned => core[Len(core)].kind = "en_high"
                     ELSE i + 2 <= Len(core) => core[i + 2].kind = "en_high"

C23_Witness ==
    /\ ReturnedFrom("read") /\ result.err = "Ok"
    /\ ~pin_failed
    /\ Len(trace) = 4
    /\ trace[1].kind = "en_low" /\ trace[1].en = "high"
    /\ IsBus(trace[2]) /\ IsBus(trace[3])
    /\ trace[4].kind = "en_high" /\ trace[4].en = "low"
    /\ pin_enable = "high"

-----------------------------------------------------------------------------
(* C24 .. C26: errors *)

CollaboratorErrors ==
    {"HoldPinError", "WriteProtectionPinError", "EnablePinError",
     "TransferError"}
ValidationErrors == {"InvalidAddress", "BufferTooSmall", "BufferUneven"}

\* C24: a collaborator call that fails is the last of its operation, but for
\* the one set_high that follows a bus exchange failed with the chip
\* selected, and the operation returns an error; an operation that returns
\* Busy ends with the status read that reported busy and its set_high; one
\* that returns a validation error has called no collaborator.
C24_ErrorsAreTerminal ==
    /\ \A i \in 1..Len(trace) :
          ~trace[i].ok =>
              IF FailedSelected(i)
              THEN /\ i >= Len(trace) - 1
                   /\ i = Len(trace) => pc # "idle" /\ step = "set_high"
                   /\ i < Len(trace) =>
                         /\ trace[Len(trace)].kind = "en_high"
                         /\ Returned
              ELSE i = Len(trace) /\ Returned
    /\ Returned =>
          /\ (\E i \in 1..Len(trace) : ~trace[i].ok)
                <=> result.err \in CollaboratorErrors
          /\ result.err \in ValidationErrors => trace = <<>>
          /\ result.err = "Busy" =>
                /\ Len(trace) >= 2
                /\ trace[Len(trace)].kind = "en_high"
                /\ IsStatusRead(trace[Len(trace) - 1])
                /\ ReportsBusy(trace[Len(trace) - 1])

C24_Witness ==
    /\ ReturnedFrom("aai_program") /\ result.err = "TransferError"
    /\ Len(BusLog) >= 5
    /\ IsStatusRead(BusLog[Len(BusLog)]) /\ ~BusLog[Len(BusLog)].ok
    /\ ReportsBusy(BusLog[Len(BusLog) - 1])
    /\ trace[Len(trace)].kind = "en_high" /\ trace[Len(trace)].ok

\* C25: in every operation the hold line is called first and only first, the
\* write-protect line second and only after a successful call of the hold
\* line, and no chip-enable call or bus exchange happens before the handle
\* is configured; when the hold line fails the operation returns HoldPinError
\* with that one call, when the write-protect line fails it returns
\* WriteProtectionPinError with these two calls.
C25_ConfigurationOrder ==
    /\ \A i \in 1..Len(trace) :
          /\ trace[i].kind = "hold_high" => i = 1
          /\ trace[i].kind = "wp_low" =>
                i = 2 /\ trace[1].kind = "hold_high" /\ trace[1].ok
          /\ trace[i].kind \in {"en_low", "en_high", "bus"} => configured
    /\ (Len(trace) >= 2 /\ trace[1].kind = "hold_high") =>
          trace[1].ok /\ trace[2].kind = "wp_low"
    /\ (Len(trace) >= 3 /\ trace[2].kind = "wp_low") =>
          trace[2].ok /\ trace[3].kind = "en_low"
    /\ (Len(trace) >= 1 /\ trace[1].kind = "hold_high" /\ ~trace[1].ok) =>
          Returned /\ result.err = "HoldPinError"
    /\ (Len(trace) >= 2 /\ trace[2].kind = "wp_low" /\ ~trace[2].ok) =>
          Returned /\ result.err = "WriteProtectionPinError"
    /\ (Returned /\ result.err = "HoldPinError") =>
          Len(trace) = 1 /\ trace[1].kind = "hold_high" /\ ~trace[1].ok
    /\ (Returned /\ result.err = "WriteProtectionPinError") =>
          Len(trace) = 2 /\ trace[2].kind = "wp_low" /\ ~trace[2].ok

C25_Witness ==
    /\ ReturnedFrom("erase_full")
    /\ result.err = "WriteProtectionPinError"
    /\ Len(trace) = 2
    /\ pin_hold = "high" /\ pin_write_protection = "none"
    /\ pin_enable = "none"
    /\ ~configured

\* C26: a failed set_low of the chip-enable line is the last collaborator
\* call of its operation, which returns EnablePinError; an operation in which
\* a chip-enable call failed returns EnablePinError and no other error, and
\* one in which a bus exchange failed and the set_high after it succeeded
\* returns TransferError.
C26_EnableErrorsDistinct ==
    /\ \A i \in 1..Len(trace) :
          (trace[i].kind = "en_low" /\ ~trace[i].ok) =>
              /\ i = Len(trace)
              /\ Returned /\ result.err = "EnablePinError"
              /\ i > 1 => ~(IsBus(trace[i - 1]) /\ trace[i - 1].en = "low")
    /\ Returned =>
          /\ (\E i \in 1..Len(trace) :
                 trace[i].kind \in {"en_low", "en_high"} /\ ~trace[i].ok)
                <=> result.err = "EnablePinError"
          /\ (\E i \in 1..Len(trace) : IsBus(trace[i]) /\ ~trace[i].ok
                 /\ \A j \in (i + 1)..Len(trace) : trace[j].ok)
                <=> result.err = "TransferError"

C26_Witness ==
    /\ ReturnedFrom("byte_program") /\ result.err = "EnablePinError"
    /\ trace[Len(trace)].kind = "en_low" /\ ~trace[Len(trace)].ok
    /\ Frames = << <<6>> >>

-----------------------------------------------------------------------------
(* C27: write-enable before a write *)

\* a byte-program frame, a first AAI frame, the erase opcode, a write-status
\* frame
IsWriteCommand(f) ==
    \/ f[1] = 2 /\ Len(f) = 5
    \/ f[1] = 173 /\ Len(f) = 6
    \/ f = <<96>>
    \/ f[1] = 1 /\ Len(f) = 2

\* C27: a byte-program frame, a first AAI frame, the erase opcode and a
\* write-status frame are the third bus exchange of their call, after a
\* successful write-enable command and a successful status read that reported
\* busy = false (for write_status: the dummy byte); aai_program sends
\* write-enable only as its first frame, so no AAI chunk follows a new one.
C27_WriteEnableFirst ==
    \A i \in 1..Len(BusLog) :
        /\ IsWriteCommand(Frames[i]) =>
              /\ i = 3
              /\ Frames[1] = <<6>> /\ BusLog[1].ok
              /\ BusLog[2].ok
              /\ IF Frames[i][1] = 1
                 THEN Frames[2] = <<0>>
                 ELSE IsStatusRead(BusLog[2]) /\ ReportsIdle(BusLog[2])
        /\ (Frames[i][1] = 173 /\ Len(Frames[i]) = 3) =>
              /\ i > 3
              /\ IsWriteCommand(Frames[3])
              /\ \A j \in 2..i : Frames[j] # <<6>>

C27_Witness ==
    /\ ReturnedFrom("aai_program") /\ result.err = "Ok"
    /\ Len(call.buffer) = 4
    /\ Frames[1] = <<6>>
    /\ Frames[3][1] = 173 /\ Len(Frames[3]) = 6
    /\ \E i \in 4..Len(Frames) : Frames[i][1] = 173 /\ Len(Frames[i]) = 3

-----------------------------------------------------------------------------
(* C28: the busy-wait, under FairSpec *)

\* C28: with a chip that ends its internal write operation at some time and
\* collaborators that do not fail, every operation that was called returns;
\* and a poll of the busy-wait that is answered busy is followed by another
\* poll, however many polls went before.
C28_EventuallyReturns ==
    /\ (pc # "idle") ~> (pc = "idle")
    /\ [][ (/\ pc \in WaitSites /\ step = "set_high"
            /\ bus_result.ok /\ bus_result.resp[2] % 2 = 1
            /\ chip' = chip)
           => (pc' = pc /\ step' = "set_low" /\ frame' = <<5, 0>>) ]_vars

C28_Witness ==
    /\ call.name = "byte_program" /\ blocking
    /\ pc = "program_wait" /\ step = "set_high"
    /\ polls > MaxPolls
    /\ chip.busy

-----------------------------------------------------------------------------
(* C29: no write command to a busy chip, under ChipSpec *)

\* C29: the bus exchange of a byte-program, AAI or erase command is never
\* started while the chip is busy; a byte_program, erase_full or aai_program
\* that returns Busy has exchanged write-enable and one status read only.
C29_NoCommandWhileBusy ==
    [][ /\ (NewCall("bus") /\ trace'[Len(trace')].data[1] \in {2, 173, 96})
              => ~chip.busy
        /\ (pc' = "idle" /\ call'.name \in WriteOperations
               /\ result'.err = "Busy")
              => LET log == SelectSeq(trace', IsBus) IN
                 /\ Len(log) = 2
                 /\ log[1].data = <<6>>
                 /\ IsStatusRead(log[2]) /\ ReportsBusy(log[2]) ]_vars

C29_Witness ==
    /\ ReturnedFrom("byte_program") /\ result.err = "Busy"
    /\ ~blocking
    /\ chip.modelled /\ chip.busy
    /\ Frames = << <<6>>, <<5, 0>> >>

-----------------------------------------------------------------------------
(* C30: the write-disable of aai_program *)

\* C30: when aai_program has sent write-disable, every collaborator call
\* before that exchange succeeded, every AAI frame of the buffer was sent and
\* the last status poll reported busy = false, and write-disable is the last
\* exchange of the call; when it returns after the first AAI frame without
\* having sent write-disable, it returns the error of a failed bus exchange
\* or chip-enable call, and the AAI frames sent before stay sent.
C30_WriteDisableOnSuccess ==
    call.name = "aai_program" =>
        LET d == FirstOf(4) IN
        /\ d > 0 =>
              /\ d = Len(BusLog)
              /\ \A i \in 1..Len(trace) :
                    (Len(SelectSeq(SubSeq(trace, 1, i), IsBus)) < d) => trace[i].ok
              /\ Len(Commands) = Len(call.buffer) \div 2 + 2
              /\ IsStatusRead(BusLog[d - 1]) /\ ReportsIdle(BusLog[d - 1])
        /\ (Returned /\ result.err = "Ok") => d > 0
        /\ (Returned /\ FirstOf(173) > 0 /\ d = 0) =>
              /\ result.err \in {"TransferError", "EnablePinError"}
              /\ \E i \in 1..Len(trace) :
                    /\ ~trace[i].ok
                    /\ trace[i].kind \in {"bus", "en_low", "en_high"}
                    /\ i >= Len(trace) - 1

C30_Witness ==
    /\ ReturnedFrom("aai_program") /\ result.err = "TransferError"
    /\ Len(call.buffer) = 4
    /\ FirstOf(173) = 3
    /\ BusLog[Len(BusLog)].data = <<173, 201, 218>>
    /\ ~BusLog[Len(BusLog)].ok
    /\ FirstOf(4) = 0

-----------------------------------------------------------------------------
(* C31: configuration after a failure *)

\* this step is a failed call of the given kind on a pin
NewCallFailed(kind) == NewCall(kind) /\ ~trace'[Len(trace')].ok

\* C31: a failed call of the hold or write-protect line leaves configured
\* false; while configured is false, every operation that reaches
\* configuration starts it at the hold line, also when the hold line was set
\* high before; once configured is true it stays true and no step calls the
\* hold or write-protect line, whatever fails afterwards.
C31_ConfigurationRetried ==
    [][ /\ (NewCallFailed("hold_high") \/ NewCallFailed("wp_low")) =>
              ~configured /\ ~configured' /\ pc' = "idle"
        /\ (pc = "idle" /\ pc' # "idle") =>
              step' = IF configured THEN "set_low" ELSE "hold"
        /\ (pc # "idle" /\ step = "hold") =>
              /\ ~configured /\ trace = <<>>
              /\ NewCall("hold_high")
        /\ NewCall("wp_low") =>
              /\ Len(trace) = 1
              /\ trace[1].kind = "hold_high" /\ trace[1].ok
        /\ configured =>
              /\ configured'
              /\ ~NewCall("hold_high") /\ ~NewCall("wp_low")
              /\ pin_hold' = pin_hold
              /\ pin_write_protection' = pin_write_protection ]_vars

C31_Witness ==
    /\ ReturnedFrom("read") /\ result.err = "HoldPinError"
    /\ trace = << [kind |-> "hold_high", ok |-> FALSE, data |-> <<>>,
                   resp |-> <<>>, en |-> "none"] >>
    /\ pin_hold = "high"
    /\ pin_write_protection = "none"
    /\ ~configured

-----------------------------------------------------------------------------
(* C32: the loop of the busy-wait *)

\* the call sites of the commands that are followed by wait()
CommandSites == {"erase_command", "program_command", "aai_first", "aai_chunk"}
\* the force argument of the wait() of the operation in progress
Forced == call.name = "aai_program"

\* C32: a status read of the busy-wait is issued only when blocking or
\* forced holds.  When a command that is followed by the busy-wait has
\* succeeded: with blocking = false and forced = false the operation returns
\* Ok with that step, without a further pin call or bus exchange; otherwise
\* a status read is issued.  After a status read of the busy-wait: a busy
\* answer is followed by another status read, under the flag as it is then,
\* and an answer that is not busy ends the wait; the flag does not change
\* during the call.  A successful blocking byte_program or erase_full has
\* issued k + 1 status reads after its command, k of them answered busy.
C32_WaitLoop ==
    /\ [](pc \in WaitSites =>
            /\ blocking \/ Forced
            /\ step \in {"set_low", "bus", "set_high"}
            /\ frame = <<5, 0>>)
    /\ []((Returned /\ call.name \in {"byte_program", "erase_full"}
              /\ result.err = "Ok") =>
            IF blocking
            THEN /\ PolledToIdle(After(3))
                 /\ Len(After(3)) = polls + 1
            ELSE /\ After(3) = <<>>
                 /\ trace[Len(trace)].kind = "en_high"
                 /\ IsBus(trace[Len(trace) - 1])
                 /\ trace[Len(trace) - 1].data[1] \in {2, 96})
    /\ [][ (/\ pc \in CommandSites \cup WaitSites
            /\ step = "set_high"
            /\ bus_result.ok
            /\ NewCallOk("en_high"))
           => /\ blocking' = blocking
              /\ IF pc \in CommandSites
                 THEN IF blocking \/ Forced
                      THEN /\ pc' \in WaitSites /\ step' = "set_low"
                           /\ frame' = <<5, 0>>
                      ELSE /\ pc' = "idle" /\ result'.err = "Ok"
                           /\ trace' = Append(trace, trace'[Len(trace')])
                 ELSE IF bus_result.resp[2] % 2 = 1
                      THEN /\ blocking' \/ Forced
                           /\ pc' = pc /\ step' = "set_low"
                           /\ frame' = <<5, 0>>
                      ELSE pc' \notin WaitSites ]_vars

C32_Witness ==
    /\ ReturnedFrom("byte_program") /\ result.err = "Ok"
    /\ ~blocking
    /\ Len(BusLog) = 3
    /\ BusLog[3].data[1] = 2
    /\ trace[Len(trace)].kind = "en_high"
    /\ polls = 0

-----------------------------------------------------------------------------
(* C33: the order of the checks of aai_program *)

\* C33: aai_program returns InvalidAddress for an address above 16777216
\* whatever the buffer, else BufferTooSmall for a buffer shorter than 2 bytes
\* (the empty buffer and the 1-byte buffer included), else BufferUneven for
\* an odd length, each without a collaborator call; else none of the three.
C33_CheckOrder ==
    ReturnedFrom("aai_program") =>
        LET n == Len(call.buffer) IN
        IF call.address > 16777216
        THEN result.err = "InvalidAddress" /\ trace = <<>>
        ELSE IF n < 2
        THEN result.err = "BufferTooSmall" /\ trace = <<>>
        ELSE IF n % 2 = 1
        THEN result.err = "BufferUneven" /\ trace = <<>>
        ELSE result.err \notin ValidationErrors /\ trace # <<>>

C33_Witness ==
    /\ ReturnedFrom("aai_program")
    /\ call.address = 16777217
    /\ Len(call.buffer) = 1
    /\ result.err = "InvalidAddress"
    /\ trace = <<>>

====
